---- MODULE Spec2Model ----
(***************************************************************************)
(* Statistics aggregation and caching layer of moneromesh: the daemon      *)
(* client (MonerodClient), the pool client (P2PoolClient) and the          *)
(* StatsService that serves both through a 30 s cache with stale fallback. *)
(***************************************************************************)
EXTENDS Integers, Sequences, FiniteSets, TLC

(***************************************************************************)
(* Bounds of the model.                                                    *)
(***************************************************************************)
\* number of times the wall clock advances
MaxTicks == 2
\* number of direct getMonerodStats / getP2PoolStats requests live at once
MaxCalls == 2
MaxBlocks == 3     \* the largest blockCount given to calculateNetworkHashrate
MaxExp == 5        \* rates given to the formatter go up to 10^6 * 1000^MaxExp

(***************************************************************************)
(* Program constants.                                                      *)
(***************************************************************************)
cacheTimeout == 30000

Keys == {"monerod", "p2pool"}
Calls == 1..MaxCalls
\* the values an abstract fetchFn may resolve with
Values == {1, 2}
Errors == {"ECONNREFUSED", "ETIMEDOUT"}
\* the wall clock moves in steps of half the TTL
TickStep == cacheTimeout \div 2

\* the two getCachedData invocations made by one getAllStats request
AllSlot(key) == IF key = "monerod" THEN MaxCalls + 1 ELSE MaxCalls + 2
Slots == 1..(MaxCalls + 2)

VARIABLES
  clock,   \* Date.now()
  cache,   \* StatsService.cache: key -> {data, timestamp}, a Map
  calls,   \* the invocations of getCachedData suspended in await fetchFn()
  all,     \* the getAllStats request suspended in await Promise.all
  event,   \* what the step just taken handed to its caller
  probe,   \* the client method called directly in the step just taken
  daemon   \* the daemon-client operation under way, request by request

vars == <<clock, cache, calls, all, event, probe, daemon>>

(***************************************************************************)
(* Number and date formatting.                                             *)
(***************************************************************************)
\* the decimal digits of n, left-padded with zeros to width 2 and 6
pad2(n) == (IF n < 10 THEN "0" ELSE "") \o ToString(n)
pad6(n) ==
  (IF n < 10 THEN "00000" ELSE IF n < 100 THEN "0000" ELSE IF n < 1000 THEN "000"
   ELSE IF n < 10000 THEN "00" ELSE IF n < 100000 THEN "0" ELSE "") \o ToString(n)

\* Number.prototype.toFixed(2) of the rational n / d, rounding half up
toFixed2(n, d) ==
  LET h == (200 * n + d) \div (2 * d) IN
  ToString(h \div 100) \o "." \o pad2(h % 100)

\* an amount in atomic units, too wide for one machine integer of the checker:
\* hi * 10^6 + lo with lo < 10^6
Atomic(hi, lo) == [hi |-> hi, lo |-> lo]

\* (amount / 1e12).toFixed(12)
toFixed12(amount) ==
  ToString(amount.hi \div 1000000) \o "." \o pad6(amount.hi % 1000000)
    \o pad6(amount.lo)

\* new Date(ms).toISOString(): the ISO text of the instant ms
toISOString(ms) == [iso |-> ms]

\* A JavaScript number that need not be whole, as the reduced fraction n / d
\* (the rounding of floating point is not modelled).
RECURSIVE gcd(_, _)
gcd(a, b) == IF b = 0 THEN a ELSE gcd(b, a % b)
Frac(n, d) ==
  IF n = 0 THEN [n |-> 0, d |-> 1]
  ELSE [n |-> n \div gcd(n, d), d |-> d \div gcd(n, d)]
fracAdd(x, y) == Frac(x.n * y.d + y.n * x.d, x.d * y.d)
fracDiv(x, y) == Frac(x.n * y.d, x.d * y.n)

units == <<"H/s", "KH/s", "MH/s", "GH/s", "TH/s">>

\* the while loop of formatHashrate on the rational n / d (unitIndex from 0)
RECURSIVE scaleHashrate(_, _, _)
scaleHashrate(n, d, unitIndex) ==
  IF (n \div d) >= 1000 /\ unitIndex < Len(units) - 1
    THEN scaleHashrate(n, d * 1000, unitIndex + 1)
    ELSE [n |-> n, d |-> d, unitIndex |-> unitIndex]

\* MonerodClient.formatHashrate and P2PoolClient.formatHashrate, on n / d
formatHashrate(n, d) ==
  LET r == scaleHashrate(n, d, 0) IN
  toFixed2(r.n, r.d) \o " " \o units[r.unitIndex + 1]

(***************************************************************************)
(* The formatter over the whole range of rates.  A rate is m * 1000^e, kept *)
(* as the pair, since 2.5 * 10^12 is wider than an integer of the checker. *)
(***************************************************************************)
Rate(m, e) == [m |-> m, e |-> e]

\* P2PoolClient.formatHashrate, line 167
p2poolUnits == <<"H/s", "KH/s", "MH/s", "GH/s", "TH/s">>

\* the while loop of formatHashrate on m * 1000^e / d: while the value is 1000
\* or more and a unit remains, divide by 1000 and move to the next unit
RECURSIVE scaleRate(_, _, _, _, _)
scaleRate(us, m, e, d, unitIndex) ==
  LET atLeast1000 == IF e > 0 THEN m >= 1 ELSE (m \div d) >= 1000 IN
  IF atLeast1000 /\ unitIndex < Len(us) - 1
    THEN IF e > 0 THEN scaleRate(us, m, e - 1, d, unitIndex + 1)
                  ELSE scaleRate(us, m, e, d * 1000, unitIndex + 1)
    ELSE [d |-> d, unitIndex |-> unitIndex, m |-> m, e |-> e]

RECURSIVE zeros(_)
zeros(e) == IF e = 0 THEN "" ELSE "000" \o zeros(e - 1)

\* toFixed(2) of m * 1000^e / d
toFixedRate(r) ==
  IF r.e = 0 \/ r.m = 0 THEN toFixed2(r.m, r.d)
  ELSE ToString(r.m) \o zeros(r.e) \o ".00"

formatRate(us, rate) ==
  LET r == scaleRate(us, rate.m, rate.e, 1, 0) IN
  [divisions |-> r.unitIndex, scaled |-> [d |-> r.d, m |-> r.m, e |-> r.e],
   text |-> toFixedRate(r) \o " " \o us[r.unitIndex + 1]]

\* MonerodClient.formatHashrate
monerodFormatHashrate(rate) == formatRate(units, rate)

\* a formatter that goes on to a sixth unit
p2poolFormatHashrate_peta(rate) == formatRate(Append(p2poolUnits, "PH/s"), rate)

\* P2PoolClient.formatHashrate
p2poolFormatHashrate(rate) == formatRate(p2poolUnits, rate)

(***************************************************************************)
(* The daemon's JSON-RPC.  A reply is what the daemon did with one call:   *)
(* "down" (the transport failed), "error" (an envelope with an error       *)
(* field), "empty" (an envelope without a result) or "result" (an envelope *)
(* with the result the method is documented to give).                      *)
(***************************************************************************)
Down == [kind |-> "down", message |-> "ECONNREFUSED"]
ErrorReply == [kind |-> "error", message |-> "busy"]
Empty == [kind |-> "empty"]
Result(r) == [kind |-> "result", result |-> r]
Failures == {Down, ErrorReply, Empty}

Ret(v) == [threw |-> FALSE, val |-> v, error |-> ""]
Throw(e) == [threw |-> TRUE, val |-> 0, error |-> e]

\* lines 39-57: the result of the envelope, or the error thrown
rpcCall(reply) ==
  IF reply.kind = "down" THEN Throw(reply.message)
  ELSE IF reply.kind = "error" THEN Throw("RPC Error: " \o reply.message)
  ELSE IF reply.kind = "empty" THEN Ret([undefined |-> TRUE])
  ELSE Ret(reply.result)

\* reading a property of the result throws a TypeError when there is no result
unusable(r) == r.threw \/ "undefined" \in DOMAIN r.val

\* the accessor without its catch block
getBlockHeight_rethrow(reply) ==
  LET result == rpcCall(reply) IN
  IF result.threw THEN result
  ELSE IF unusable(result) THEN Throw("TypeError") ELSE Ret(result.val.count)

\* lines 62-70
getBlockHeight(reply) ==
  LET result == rpcCall(reply) IN
  IF unusable(result) THEN Ret(0) ELSE Ret(result.val.count)

\* lines 200-208
getDifficulty(reply) ==
  LET result == rpcCall(reply) IN
  IF unusable(result) THEN Ret(0) ELSE Ret(result.val.difficulty)

\* a walk that goes one height further down
walkEnds_belowZero(i, blockCount, height) == ~(i < blockCount) \/ height < -1

\* lines 102-104: the loop condition and the break
walkEnds(i, blockCount, height) == ~(i < blockCount) \/ height < 0

\* lines 102-111: the loop of calculateNetworkHashrate from index i on, over
\* the replies to its get_block calls; asked lists the heights requested
RECURSIVE collectBlocks(_, _, _, _, _, _)
collectBlocks(currentHeight, blockCount, replies, i, blocks, asked) ==
  LET height == currentHeight - i - 1
      block == rpcCall(replies[Len(asked) + 1])
  IN
  IF walkEnds(i, blockCount, height)
    THEN [threw |-> FALSE, blocks |-> blocks, asked |-> asked]
  ELSE IF unusable(block)
    THEN [threw |-> TRUE, blocks |-> blocks, asked |-> Append(asked, height)]
  ELSE collectBlocks(currentHeight, blockCount, replies, i + 1,
                     Append(blocks,
                            [height |-> block.val.block_header.height,
                             timestamp |-> block.val.block_header.timestamp,
                             difficulty |-> block.val.block_header.difficulty]),
                     Append(asked, height))

\* lines 162-174: the loop of calculateWeightedHashrate from index i on (the
\* code counts i from 0, sequences count from 1)
RECURSIVE weightedSums(_, _, _, _)
weightedSums(blocks, i, totalWeightedHashrate, totalWeight) ==
  LET timeDiff == blocks[i + 1].timestamp - blocks[i + 2].timestamp
      weight == Frac(1, i + 1)
      hashrate == Frac(blocks[i + 1].difficulty, timeDiff)
  IN
  IF ~(i < Len(blocks) - 1)
    THEN [totalWeightedHashrate |-> totalWeightedHashrate,
          totalWeight |-> totalWeight]
  ELSE IF timeDiff <= 0
    THEN weightedSums(blocks, i + 1, totalWeightedHashrate, totalWeight)
  ELSE weightedSums(blocks, i + 1,
                    fracAdd(totalWeightedHashrate,
                            Frac(hashrate.n * weight.n, hashrate.d * weight.d)),
                    fracAdd(totalWeight, weight))

\* lines 156-177
calculateWeightedHashrate(blocks) ==
  LET sums == weightedSums(blocks, 0, Frac(0, 1), Frac(0, 1)) IN
  IF Len(blocks) < 2 THEN Frac(0, 1)
  ELSE IF sums.totalWeight.n > 0
    THEN fracDiv(sums.totalWeightedHashrate, sums.totalWeight)
    ELSE Frac(0, 1)

\* the test for too few blocks, satisfied with a single block
notEnoughBlocks_one(blocks) == Len(blocks) < 1

\* line 113: blocks.length < 2
notEnoughBlocks(blocks) == Len(blocks) < 2

\* lines 91-143: calculateNetworkHashrate(blockCount) over the replies to
\* get_block_count, to the get_block calls of the loop, and to the
\* get_difficulty of the catch block.  The simple and the time-based estimate
\* of lines 118-122 are computed and dropped.
calculateNetworkHashrate(blockCount, countReply, blockReplies, difficultyReply) ==
  LET currentHeight == getBlockHeight(countReply)
      walk == collectBlocks(currentHeight.val, blockCount, blockReplies, 0,
                            <<>>, <<>>)
      weighted == calculateWeightedHashrate(walk.blocks)
      fallback == Frac(getDifficulty(difficultyReply).val, 120)
  IN
  IF currentHeight.threw \/ walk.threw \/ notEnoughBlocks(walk.blocks)
    THEN Ret([asked |-> walk.asked,
              hashrate |-> formatHashrate(fallback.n, fallback.d),
              hashrateNumber |-> fallback,
              method |-> "difficulty_fallback"])
    ELSE Ret([asked |-> walk.asked,
              hashrate |-> formatHashrate(weighted.n, weighted.d),
              hashrateNumber |-> weighted,
              method |-> "weighted_average"])

\* lines 75-86
getNetworkHashrate(reply) ==
  LET result == rpcCall(reply) IN
  IF unusable(result) THEN Ret("0 H/s")
  ELSE Ret(formatHashrate(result.val.difficulty, 120))

\* line 216: the height getLastBlockInfo asks get_block for
lastBlockHeight(countReply) == getBlockHeight(countReply).val - 1

\* lines 213-229: get_block_count, then get_block for the height before it
getLastBlockInfo(countReply, blockReply, t) ==
  LET blockHeight == getBlockHeight(countReply)
      result == rpcCall(blockReply)
  IN
  IF blockHeight.threw \/ unusable(result)
    THEN Ret([timestamp |-> toISOString(t), reward |-> "0"])
    ELSE Ret([timestamp |-> toISOString(result.val.block_header.timestamp * 1000),
              reward |-> toFixed12(result.val.block_header.reward)])

\* lines 234-242
getTotalSupply(reply) ==
  LET result == rpcCall(reply) IN
  IF unusable(result) THEN Ret("0") ELSE Ret(toFixed12(result.val.total_supply))

\* lines 271-281: the snapshot of the catch block of getStats
defaultMonerodStats(t) ==
  [status |-> "disconnected", blockHeight |-> 0, networkHashrate |-> "0 H/s",
   difficulty |-> 0, lastBlockTime |-> toISOString(t), totalSupply |-> "0",
   circulatingSupply |-> "0", blockReward |-> "0", averageBlockTime |-> 120]

\* the status derived from a height that counts height 0 as connected
daemonStatus_nonNegative(blockHeight) ==
  IF blockHeight >= 0 THEN "connected" ELSE "disconnected"

\* line 259: blockHeight > 0 ? 'connected' : 'disconnected'
daemonStatus(blockHeight) ==
  IF blockHeight > 0 THEN "connected" ELSE "disconnected"

\* lines 247-283: MonerodClient.getStats over the replies to its six calls, in
\* the order the calls are written: get_block_count, get_difficulty,
\* get_block_count and get_block (getLastBlockInfo), get_supply, get_difficulty
monerodGetStats(replies, t) ==
  LET blockHeight == getBlockHeight(replies[1])
      difficulty == getDifficulty(replies[2])
      lastBlockInfo == getLastBlockInfo(replies[3], replies[4], t)
      totalSupply == getTotalSupply(replies[5])
      networkHashrate == getNetworkHashrate(replies[6])
  IN
  IF blockHeight.threw \/ difficulty.threw \/ lastBlockInfo.threw
       \/ totalSupply.threw \/ networkHashrate.threw
    THEN Ret(defaultMonerodStats(t))
    ELSE Ret([status |-> daemonStatus(blockHeight.val),
              blockHeight |-> blockHeight.val,
              networkHashrate |-> networkHashrate.val,
              difficulty |-> difficulty.val,
              lastBlockTime |-> lastBlockInfo.val.timestamp,
              totalSupply |-> totalSupply.val,
              circulatingSupply |-> totalSupply.val,
              blockReward |-> lastBlockInfo.val.reward,
              averageBlockTime |-> 120])

\* a connection test that goes by the height it got
monerodTestConnection_byHeight(reply) == Ret(getBlockHeight(reply).val > 0)

\* lines 288-295: MonerodClient.testConnection
monerodTestConnection(reply) ==
  IF getBlockHeight(reply).threw THEN Ret(FALSE) ELSE Ret(TRUE)

(***************************************************************************)
(* The pool's HTTP API.  A reply to a GET is "down" (transport failure or  *)
(* a status outside 2xx) or a JSON body.  Bodies are JavaScript values, so *)
(* that ?. and || act on them as they do in the code.                      *)
(***************************************************************************)
Undefined == [t |-> "undefined"]
Null == [t |-> "null"]
Num(n) == [t |-> "number", n |-> n]
\* a number in atomic units, too wide for one machine integer of the checker
Amt(hi, lo) == [t |-> "amount", hi |-> hi, lo |-> lo]
Str(x) == [t |-> "string", s |-> x]
Arr(items) == [t |-> "array", items |-> items]
Obj(fields) == [t |-> "object", f |-> fields]

Body(b) == [kind |-> "body", body |-> b]

\* ToBoolean
truthy(v) ==
  CASE v.t = "number" -> v.n # 0
    [] v.t = "amount" -> v.hi # 0 \/ v.lo # 0
    [] v.t = "string" -> v.s # ""
    [] v.t \in {"array", "object"} -> TRUE
    [] OTHER -> FALSE

\* a || b
or(a, b) == IF truthy(a) THEN a ELSE b

\* o?.name
get(o, name) ==
  IF o.t = "object" /\ name \in DOMAIN o.f THEN o.f[name] ELSE Undefined

\* v?.length
lengthOf(v) == IF v.t = "array" THEN Num(Len(v.items)) ELSE Undefined

\* lines 44-78: getPoolStats, getMinerStats, getNetworkStats log and rethrow
httpGet(reply) ==
  IF reply.kind = "down" THEN Throw(reply.message) ELSE Ret(reply.body)

\* lines 86-88: promise.catch(() => null)
orNull(r) == IF r.threw THEN Null ELSE r.val

\* this.formatHashrate(v): toFixed exists on numbers only (a string passes
\* the loop only when it reads as a number of 1000 or more, which no string
\* of the model does)
formatValue(v) ==
  IF v.t = "number" THEN Ret(formatHashrate(v.n, 1))
  ELSE Throw("TypeError: hashrate.toFixed is not a function")

\* (parseFloat(v) / 1e12).toFixed(12)
formatAmount(v) ==
  CASE v.t = "amount" -> toFixed12(Atomic(v.hi, v.lo))
    [] v.t = "number" -> toFixed12(Atomic(v.n \div 1000000, v.n % 1000000))
    [] v.t = "string" /\ v.s = "0" -> toFixed12(Atomic(0, 0))
    [] OTHER -> "NaN"

\* m.last_share_time || 0, as a number
shareTime(m) ==
  LET v == or(get(m, "last_share_time"), Num(0)) IN
  IF v.t = "number" THEN v.n ELSE 0

\* Math.max(...miners.map(m => m.last_share_time || 0))
RECURSIVE maxShare(_)
maxShare(miners) ==
  IF Len(miners) = 1 THEN shareTime(miners[1])
  ELSE LET rest == maxShare(Tail(miners)) IN
       IF shareTime(miners[1]) >= rest THEN shareTime(miners[1]) ELSE rest

\* the share time of the first miner entry, in place of the latest
lastShareTimeOf_first(minerStats, t) ==
  LET miners == get(minerStats, "miners") IN
  IF truthy(miners) /\ miners.t = "array" /\ Len(miners.items) > 0
       /\ shareTime(miners.items[1]) > 0
    THEN toISOString(shareTime(miners.items[1]) * 1000)
    ELSE toISOString(t)

\* lines 105-112
lastShareTimeOf(minerStats, t) ==
  LET miners == get(minerStats, "miners") IN
  IF truthy(miners) /\ miners.t = "array" /\ Len(miners.items) > 0
       /\ maxShare(miners.items) > 0
    THEN toISOString(maxShare(miners.items) * 1000)
    ELSE toISOString(t)

\* lines 132-147: the snapshot of the catch block of getStats
defaultP2PoolStats(t) ==
  [status |-> "inactive", poolHashrate |-> "0 H/s", networkHashrate |-> "0 H/s",
   liveHashrate |-> "0 H/s", miners |-> Num(0), workers |-> Num(0),
   shares |-> Num(0), lastShareTime |-> toISOString(t), uptime |-> Num(0),
   poolFee |-> Num(0), minPayout |-> "0", totalPaid |-> "0",
   averageEffort |-> Num(0), currentEffort |-> Num(0)]

\* the three endpoint results of lines 85-89, each failure turned into null
endpoints(replies) ==
  [poolStats |-> orNull(httpGet(replies[1])),
   minerStats |-> orNull(httpGet(replies[2])),
   networkStats |-> orNull(httpGet(replies[3]))]

\* the status that ignores the outcome of GET /stats
statusOf_always(poolStats) == "active"

\* line 115
statusOf(poolStats) == IF truthy(poolStats) THEN "active" ELSE "inactive"

\* lines 83-149: P2PoolClient.getStats over the replies to GET /stats,
\* GET /miners and GET /network
p2poolGetStats(replies, t) ==
  LET poolStats == endpoints(replies).poolStats
      minerStats == endpoints(replies).minerStats
      networkStats == endpoints(replies).networkStats
      poolHashrate == or(get(poolStats, "pool_hashrate"), Num(0))
      networkHashrate == or(or(get(networkStats, "network_hashrate"),
                               get(poolStats, "network_hashrate")), Num(0))
      liveHashrate == or(get(poolStats, "live_hashrate"), poolHashrate)
      miners == or(or(lengthOf(get(minerStats, "miners")),
                      get(poolStats, "miners")), Num(0))
      workers == or(or(get(minerStats, "workers"), get(poolStats, "workers")),
                    Num(0))
      minPayout == or(get(poolStats, "min_payout"), Str("0"))
      totalPaid == or(get(poolStats, "total_paid"), Str("0"))
  IN
  IF formatValue(poolHashrate).threw \/ formatValue(networkHashrate).threw
       \/ formatValue(liveHashrate).threw
    THEN Ret(defaultP2PoolStats(t))
    ELSE Ret([status |-> statusOf(poolStats),
              poolHashrate |-> formatValue(poolHashrate).val,
              networkHashrate |-> formatValue(networkHashrate).val,
              liveHashrate |-> formatValue(liveHashrate).val,
              miners |-> miners,
              workers |-> workers,
              shares |-> or(get(poolStats, "shares"), Num(0)),
              lastShareTime |-> lastShareTimeOf(minerStats, t),
              uptime |-> or(get(poolStats, "uptime"), Num(0)),
              poolFee |-> or(get(poolStats, "pool_fee"), Num(0)),
              minPayout |-> formatAmount(minPayout),
              totalPaid |-> formatAmount(totalPaid),
              averageEffort |-> or(get(poolStats, "average_effort"), Num(0)),
              currentEffort |-> or(get(poolStats, "current_effort"), Num(0))])

\* a connection test that never reports a failure
p2poolTestConnection_always(reply) == Ret(TRUE)

\* lines 154-161: P2PoolClient.testConnection, over the reply to GET /stats
p2poolTestConnection(reply) ==
  IF httpGet(reply).threw THEN Ret(FALSE) ELSE Ret(TRUE)

(***************************************************************************)
(* StatsService.cache, a Map<string, {data, timestamp}>.                   *)
(***************************************************************************)
EmptyMap == [k \in {} |-> 0]

\* this.cache.get(key): the entry, or undefined
NoEntry == [has |-> FALSE, data |-> 0, timestamp |-> 0]
cacheGet(m, key) ==
  IF key \in DOMAIN m
    THEN [has |-> TRUE, data |-> m[key].data, timestamp |-> m[key].timestamp]
    ELSE NoEntry

\* this.cache.set(key, { data, timestamp })
cacheSet(m, key, data, timestamp) ==
  [k \in DOMAIN m \cup {key} |->
     IF k = key THEN [data |-> data, timestamp |-> timestamp] ELSE m[k]]

\* a clear that spares the pool's entry
cleared_keepPool(m) == [k \in DOMAIN m \cap {"p2pool"} |-> m[k]]

\* line 671: this.cache.clear()
cleared(m) == EmptyMap

\* the freshness test with the boundary off by one
isFresh_inclusive(cached, now) ==
  cached.has /\ (now - cached.timestamp) <= cacheTimeout

\* cached && (now - cached.timestamp) < this.cacheTimeout
isFresh(cached, now) ==
  cached.has /\ (now - cached.timestamp) < cacheTimeout

(***************************************************************************)
(* One invocation of getCachedData(key, fetchFn).                          *)
(*   pc      "idle" or "fetching" (suspended in await fetchFn())           *)
(*   owner   "direct" (getMonerodStats / getP2PoolStats called by a        *)
(*           route), "all" (called by a getAllStats that still waits) or   *)
(*           "orphan" (called by a getAllStats that has already rejected)  *)
(*   cached  the local `cached`, read once before the await                *)
(*   now     the local `now`, read once before the await                   *)
(***************************************************************************)
IdleCall == [pc |-> "idle", owner |-> "direct", key |-> "monerod",
             cached |-> NoEntry, now |-> 0]

NoOutcome == [kind |-> "none", val |-> 0, err |-> ""]
Resolved(v) == [kind |-> "ok", val |-> v, err |-> ""]
Rejected(e) == [kind |-> "fail", val |-> 0, err |-> e]

NoResult == [kind |-> "none", val |-> 0, err |-> ""]
Value(v) == [kind |-> "value", val |-> v, err |-> ""]
Thrown(e) == [kind |-> "error", val |-> 0, err |-> e]

\* lines 568-576: the locals of an invocation that goes on to fetchFn
suspended(owner, key, m, t) ==
  [pc |-> "fetching", owner |-> owner, key |-> key,
   cached |-> cacheGet(m, key), now |-> t]

\* any entry, fresh or not, returned without calling fetchFn
hits_anyEntry(key, m, t) == cacheGet(m, key).has

\* lines 571-573: a fresh entry is returned without calling fetchFn
hits(key, m, t) == isFresh(cacheGet(m, key), t)

\* a write that also restamps the entries of the other keys
writeAfterFetch_touchAll(m, call, data) ==
  [k \in DOMAIN m \cup {call.key} |->
     IF k = call.key THEN [data |-> data, timestamp |-> call.now]
     ELSE [m[k] EXCEPT !.timestamp = call.now]]

\* line 577: the map after a successful fetch
writeAfterFetch(m, call, data) == cacheSet(m, call.key, data, call.now)

\* the catch block without its stale fallback
onFetchError_rethrow(call, error) == Thrown(error)

\* the catch block swallowing a cold failure into an empty value
onFetchError_swallow(call, error) ==
  IF call.cached.has THEN Value(call.cached.data) ELSE Value(0)

\* lines 579-586: what the invocation gives its caller when fetchFn rejects
onFetchError(call, error) ==
  IF call.cached.has THEN Value(call.cached.data) ELSE Thrown(error)

(***************************************************************************)
(* getAllStats: Promise.all over the two invocations, then the composite.  *)
(*   got[key] is the settled value of that key's invocation, NoResult      *)
(*   while it is still suspended.                                          *)
(***************************************************************************)
\* what getAllStats knows of one of its two invocations: the settled value
\* (NoResult while suspended), and how it came about
NoSrc == [fetched |-> FALSE, failed |-> FALSE, cachedHas |-> FALSE]
IdleAll == [pc |-> "idle", got |-> [k \in Keys |-> NoResult],
            src |-> [k \in Keys |-> NoSrc]]

\* system stats computed once, when the service was constructed
getSystemStats_atStart(t) == [timestamp |-> 0]

\* lines 606-623: process metrics, of which the model keeps the timestamp
getSystemStats(t) == [timestamp |-> t]

\* lines 637-642: the composite
composite(got, t) ==
  [monerod |-> got["monerod"].val, p2pool |-> got["p2pool"].val,
   system |-> getSystemStats(t), lastUpdated |-> t]

NoAll == [kind |-> "none", val |-> 0, err |-> "",
          got |-> [k \in Keys |-> NoResult], src |-> [k \in Keys |-> NoSrc]]
\* the aggregate swallowing a rejection into a composite with a hole
settleAll_swallow(got, src, t) ==
  IF \A k \in Keys : got[k].kind \in {"value", "error"}
    THEN [kind |-> "resolved", val |-> composite(got, t), err |-> "",
          got |-> got, src |-> src]
    ELSE NoAll

\* lines 630-646: Promise.all rejects with the first rejection, which the catch
\* rethrows; it fulfils once both invocations have
settleAll(got, src, t) ==
  IF \E k \in Keys : got[k].kind = "error"
    THEN LET k == CHOOSE j \in Keys : got[j].kind = "error" IN
         [kind |-> "rejected", val |-> 0, err |-> got[k].err,
          got |-> got, src |-> src]
    ELSE IF \A k \in Keys : got[k].kind = "value"
      THEN [kind |-> "resolved", val |-> composite(got, t), err |-> "",
            got |-> got, src |-> src]
      ELSE NoAll

(***************************************************************************)
(* What a step hands over: ev is "none", "hit" (fresh entry returned),     *)
(* "fetch" (fetchFn invoked), "fresh" (fetched value returned), "stale"    *)
(* (expired entry returned after a failed fetch), "throw" (failure         *)
(* propagated), "all" (getAllStats entered), "status" (getCacheStatus      *)
(* returned status), "system" (getSystemStats returned result), "clear" or *)
(* "tick".                                                                 *)
(***************************************************************************)
NoEvent == [ev |-> "none", slot |-> 0, owner |-> "direct", key |-> "monerod",
            cached |-> NoEntry, now |-> 0, upstream |-> <<>>,
            outcome |-> NoOutcome, result |-> NoResult, all |-> NoAll,
            status |-> EmptyMap]

Occurred(ev, slot, call, upstream, outcome, result, settled) ==
  [ev |-> ev, slot |-> slot, owner |-> call.owner, key |-> call.key,
   cached |-> call.cached, now |-> call.now, upstream |-> upstream,
   outcome |-> outcome, result |-> result, all |-> settled,
   status |-> EmptyMap]

\* a client method called on its own: the replies it got, and what it gave
NoProbe ==
  [op |-> "none", args |-> <<>>, replies |-> <<>>, at |-> 0, result |-> Ret(0)]

\* a request of the daemon client: the method awaiting it, the JSON-RPC
\* method, its params, and the reply once there is one
Pending == [kind |-> "pending"]
Rpc(by, method, params) ==
  [by |-> by, method |-> method, params |-> params, reply |-> Pending]

\* no operation of the daemon client under way
IdleDaemon ==
  [op |-> "none", args |-> <<>>, pc |-> "idle", log |-> <<>>, result |-> Ret(0)]

(***************************************************************************)
(* Actions of the StatsService.                                            *)
(***************************************************************************)
Init ==
  /\ clock = 0
  /\ cache = EmptyMap
  /\ calls = [s \in Slots |-> IdleCall]
  /\ all = IdleAll
  /\ event = NoEvent
  /\ probe = NoProbe
  /\ daemon = IdleDaemon

Tick ==
  /\ clock < MaxTicks * TickStep
  /\ clock' = clock + TickStep
  /\ event' = [NoEvent EXCEPT !.ev = "tick"]
  /\ probe' = NoProbe
  /\ UNCHANGED <<cache, calls, all, daemon>>

\* lines 592-601: getMonerodStats / getP2PoolStats called by a route; the
\* invocation of getCachedData runs up to its return or its await
GetStats(c, key) ==
  LET call == suspended("direct", key, cache, clock) IN
  /\ calls[c].pc = "idle"
  /\ IF hits(key, cache, clock)
       THEN /\ event' = Occurred("hit", c, call, <<>>, NoOutcome,
                                 Value(call.cached.data), NoAll)
            /\ UNCHANGED calls
       ELSE /\ event' = Occurred("fetch", c, call, <<>>, NoOutcome, NoResult,
                                 NoAll)
            /\ calls' = [calls EXCEPT ![c] = call]
  /\ UNCHANGED <<clock, cache, all, probe, daemon>>

\* lines 628-633: getAllStats enters both invocations and awaits Promise.all
GetAllStats ==
  LET got == [k \in Keys |->
                IF hits(k, cache, clock) THEN Value(cacheGet(cache, k).data)
                                         ELSE NoResult]
      src == [k \in Keys |->
                [fetched |-> ~hits(k, cache, clock), failed |-> FALSE,
                 cachedHas |-> cacheGet(cache, k).has]]
      settled == settleAll(got, src, clock)
  IN
  /\ all.pc = "idle"
  /\ \A k \in Keys : calls[AllSlot(k)].pc = "idle"
  /\ calls' = [s \in Slots |->
                 IF \E k \in Keys : s = AllSlot(k) /\ ~hits(k, cache, clock)
                   THEN suspended("all", CHOOSE k \in Keys : s = AllSlot(k),
                                  cache, clock)
                   ELSE calls[s]]
  /\ all' = IF settled.kind = "none"
              THEN [pc |-> "waiting", got |-> got, src |-> src]
              ELSE IdleAll
  /\ event' = [NoEvent EXCEPT !.ev = "all", !.now = clock, !.all = settled]
  /\ UNCHANGED <<clock, cache, probe, daemon>>

\* lines 576-586: the awaited fetchFn settles with outcome; an invocation made
\* by getAllStats hands its result to Promise.all (lines 630-646)
Complete(s, upstream, outcome) ==
  LET call == calls[s]
      result == IF outcome.kind = "ok" THEN Value(outcome.val)
                                       ELSE onFetchError(call, outcome.err)
      ev == IF outcome.kind = "ok" THEN "fresh"
            ELSE IF result.kind = "value" THEN "stale" ELSE "throw"
      got == [all.got EXCEPT ![call.key] = result]
      src == [all.src EXCEPT ![call.key].failed = (outcome.kind = "fail")]
      settled == IF call.owner = "all" THEN settleAll(got, src, clock) ELSE NoAll
  IN
  /\ call.pc = "fetching"
  /\ cache' = IF outcome.kind = "ok" THEN writeAfterFetch(cache, call, outcome.val)
                                     ELSE cache
  /\ calls' = [t \in Slots |->
                 IF t = s THEN IdleCall
                 ELSE IF settled.kind = "rejected" /\ calls[t].owner = "all"
                   THEN [calls[t] EXCEPT !.owner = "orphan"]
                   ELSE calls[t]]
  /\ all' = IF call.owner # "all" THEN all
            ELSE IF settled.kind = "none"
              THEN [all EXCEPT !.got = got, !.src = src]
              ELSE IdleAll
  /\ event' = Occurred(ev, s, call, upstream, outcome, result, settled)
  /\ UNCHANGED <<clock, probe, daemon>>

\* the awaited fetchFn resolves with data
FetchResolve(s, data) == Complete(s, <<>>, Resolved(data))

\* the awaited fetchFn rejects with error
FetchReject(s, error) == Complete(s, <<>>, Rejected(error))

\* lines 670-672
clearCache ==
  /\ cache' = cleared(cache)
  /\ event' = [NoEvent EXCEPT !.ev = "clear"]
  /\ UNCHANGED <<clock, calls, all, probe, daemon>>

\* a status that counts an entry of age cacheTimeout as valid
getCacheStatus_inclusive(m, now) ==
  [key \in DOMAIN m |->
     LET age == now - m[key].timestamp IN
     [age |-> age, valid |-> age <= cacheTimeout]]

\* lines 677-690: the status of every entry at the instant now
getCacheStatus(m, now) ==
  [key \in DOMAIN m |->
     LET age == now - m[key].timestamp IN
     [age |-> age, valid |-> age < cacheTimeout]]

\* lines 677-690: getCacheStatus called by a route
GetCacheStatus ==
  /\ event' = [NoEvent EXCEPT !.ev = "status", !.now = clock,
                              !.status = getCacheStatus(cache, clock)]
  /\ UNCHANGED <<clock, cache, calls, all, probe, daemon>>

\* lines 606-623: getSystemStats called by a route
GetSystemStats ==
  /\ event' = [NoEvent EXCEPT !.ev = "system", !.now = clock,
                              !.result = Value(getSystemStats(clock))]
  /\ UNCHANGED <<clock, cache, calls, all, probe, daemon>>

(***************************************************************************)
(* The cache primitive under direct requests, over an arbitrary fetchFn    *)
(* that may resolve with any value or reject with any error.               *)
(***************************************************************************)
NextCache ==
  \/ Tick
  \/ \E c \in Calls, key \in Keys : GetStats(c, key)
  \/ \E c \in Calls, data \in Values : FetchResolve(c, data)
  \/ \E c \in Calls, error \in Errors : FetchReject(c, error)
  \/ clearCache

SpecCache == Init /\ [][NextCache]_vars

(***************************************************************************)
(* getAllStats next to one direct request, over arbitrary clients.         *)
(***************************************************************************)
NextAll ==
  \/ Tick
  \/ \E key \in Keys : GetStats(1, key)
  \/ GetAllStats
  \/ \E s \in Slots \ (2..MaxCalls), data \in Values : FetchResolve(s, data)
  \/ \E s \in Slots \ (2..MaxCalls), error \in Errors : FetchReject(s, error)
  \/ clearCache
  \/ GetCacheStatus
  \/ GetSystemStats

SpecAll == Init /\ [][NextAll]_vars

(***************************************************************************)
(* What the two upstreams may answer: a failure, or a result of the shape  *)
(* the external interface documents.                                       *)
(***************************************************************************)
CountReplies == Failures \cup {Result([count |-> h]) : h \in {0, 100}}
DifficultyReplies ==
  Failures \cup {Result([difficulty |-> d]) : d \in {72000, 1200000}}
BlockReplies ==
  Failures \cup
    {Result([block_header |->
               [height |-> 99, timestamp |-> 20, difficulty |-> 1200000,
                reward |-> Atomic(600000, 0)]]),
     Result([block_header |->
               [height |-> 0, timestamp |-> 5, difficulty |-> 72000,
                reward |-> Atomic(1000000, 0)]])}
SupplyReplies ==
  Failures \cup {Result([total_supply |-> Atomic(1000000, 0)]),
                 Result([total_supply |-> Atomic(18000000, 500000)])}

\* the replies to the six calls of MonerodClient.getStats
MonerodReplies ==
  {<<r1, r2, r3, r4, r5, r6>> :
     r1 \in CountReplies, r2 \in DifficultyReplies, r3 \in CountReplies,
     r4 \in BlockReplies, r5 \in SupplyReplies, r6 \in DifficultyReplies}

StatsBodies ==
  {Obj([pool_hashrate |-> Num(2500000), network_hashrate |-> Num(9000000),
        live_hashrate |-> Num(1500), miners |-> Num(7), workers |-> Num(9),
        shares |-> Num(42), uptime |-> Num(3600), pool_fee |-> Num(0),
        min_payout |-> Amt(300, 0), total_paid |-> Amt(1000000, 0),
        average_effort |-> Num(95), current_effort |-> Num(0)]),
   Obj([shares |-> Num(5), miners |-> Num(0)]),
   \* a pool that reports its hashrate as text
   Obj([pool_hashrate |-> Str("1.5 KH/s"), miners |-> Num(2)])}
MinersBodies ==
  {Obj([miners |-> Arr(<<Obj([last_share_time |-> Num(10)]),
                         Obj([last_share_time |-> Num(20)]),
                         Obj([id |-> Str("x")])>>),
        workers |-> Num(3)]),
   Obj([miners |-> Arr(<<>>)]),
   Obj([miners |-> Arr(<<Obj([last_share_time |-> Num(0)])>>)]),
   Obj([miners |-> Num(4)])}
NetworkBodies ==
  {Obj([network_hashrate |-> Num(8000000)]), Obj([height |-> Num(5)]),
   Obj([network_hashrate |-> Str("12 MH/s")])}

\* the replies to GET /stats, GET /miners and GET /network
P2PoolReplies ==
  {<<r1, r2, r3>> :
     r1 \in {Down} \cup {Body(b) : b \in StatsBodies},
     r2 \in {Down} \cup {Body(b) : b \in MinersBodies},
     r3 \in {Down} \cup {Body(b) : b \in NetworkBodies}}

(***************************************************************************)
(* The two clients, and the methods of the service that only pass through  *)
(* to them, called on their own.                                           *)
(***************************************************************************)
\* A client keeps no state from one call to the next, so one call per clock
\* reading already reaches every call the clients can make.
ProbedWith(op, args, replies, result) ==
  /\ probe.op = "none"
  /\ probe' = [op |-> op, args |-> args, replies |-> replies, at |-> clock,
               result |-> result]
  /\ event' = NoEvent
  /\ UNCHANGED <<clock, cache, calls, all, daemon>>

Probed(op, replies, result) == ProbedWith(op, <<>>, replies, result)

CallGetBlockHeight ==
  \E r \in CountReplies : Probed("getBlockHeight", <<r>>, getBlockHeight(r))

CallGetDifficulty ==
  \E r \in DifficultyReplies : Probed("getDifficulty", <<r>>, getDifficulty(r))

CallGetNetworkHashrate ==
  \E r \in DifficultyReplies :
    Probed("getNetworkHashrate", <<r>>, getNetworkHashrate(r))

CallGetTotalSupply ==
  \E r \in SupplyReplies : Probed("getTotalSupply", <<r>>, getTotalSupply(r))

CallGetLastBlockInfo ==
  \E r1 \in CountReplies, r2 \in BlockReplies :
    Probed("getLastBlockInfo", <<r1, r2>>, getLastBlockInfo(r1, r2, clock))

CallMonerodGetStats ==
  \E replies \in MonerodReplies :
    Probed("monerod.getStats", replies, monerodGetStats(replies, clock))

CallP2PoolGetStats ==
  \E replies \in P2PoolReplies :
    Probed("p2pool.getStats", replies, p2poolGetStats(replies, clock))

\* lines 652-665 of the service: testConnections awaits both clients'
\* testConnection in a Promise.all
testConnections(countReply, statsReply) ==
  LET monerodConnected == monerodTestConnection(countReply)
      p2poolConnected == p2poolTestConnection(statsReply)
  IN
  IF monerodConnected.threw THEN monerodConnected
  ELSE IF p2poolConnected.threw THEN p2poolConnected
  ELSE Ret([monerod |-> monerodConnected.val, p2pool |-> p2poolConnected.val])

StatsReplies == {Down} \cup {Body(b) : b \in StatsBodies}

CallMonerodTestConnection ==
  \E r \in CountReplies :
    Probed("monerod.testConnection", <<r>>, monerodTestConnection(r))

CallTestConnections ==
  \E countReply \in CountReplies, statsReply \in StatsReplies :
    Probed("testConnections", <<countReply, statsReply>>,
           testConnections(countReply, statsReply))

\* the rates given to the two formatters
Mantissas == {0, 1, 999, 1000, 1500, 2500, 999999, 1000000}
Rates == {Rate(m, e) : m \in Mantissas, e \in 0..MaxExp}

CallFormatHashrate ==
  \E rate \in Rates :
    ProbedWith("formatHashrate", <<rate>>, <<>>,
               Ret([monerod |-> monerodFormatHashrate(rate),
                    p2pool |-> p2poolFormatHashrate(rate)]))

\* the chain heights calculateNetworkHashrate may find
WalkCountReplies == Failures \cup {Result([count |-> h]) : h \in {0, 1, 2, 100}}

\* the number of blocks the loop of calculateNetworkHashrate can ask for
available(blockCount, countReply) ==
  LET height == getBlockHeight(countReply).val IN
  IF blockCount < height THEN blockCount ELSE height

CallCalculateNetworkHashrate ==
  \E blockCount \in 0..MaxBlocks, countReply \in WalkCountReplies,
     difficultyReply \in DifficultyReplies :
    \E blockReplies \in [1..available(blockCount, countReply) -> BlockReplies] :
      ProbedWith("calculateNetworkHashrate", <<blockCount>>,
                 <<countReply, blockReplies, difficultyReply>>,
                 calculateNetworkHashrate(blockCount, countReply, blockReplies,
                                          difficultyReply))

NextClients ==
  \/ Tick
  \/ CallCalculateNetworkHashrate
  \/ CallMonerodTestConnection
  \/ CallTestConnections
  \/ CallFormatHashrate
  \/ CallGetBlockHeight
  \/ CallGetDifficulty
  \/ CallGetNetworkHashrate
  \/ CallGetTotalSupply
  \/ CallGetLastBlockInfo
  \/ CallMonerodGetStats
  \/ CallP2PoolGetStats

SpecClients == Init /\ [][NextClients]_vars

(***************************************************************************)
(* The daemon client request by request: an operation issues its JSON-RPC  *)
(* requests, each is answered at some later step, and the code after the   *)
(* await runs when its answer arrives.  daemon.log lists the requests in   *)
(* the order they were issued.                                             *)
(***************************************************************************)
StepCountReplies == {Down} \cup {Result([count |-> h]) : h \in {0, 2, 100}}
StepDifficultyReplies == {ErrorReply, Result([difficulty |-> 1200000])}
StepBlockReplies ==
  {Empty,
   Result([block_header |->
             [height |-> 99, timestamp |-> 20, difficulty |-> 1200000,
              reward |-> Atomic(600000, 0)]]),
   Result([block_header |->
             [height |-> 98, timestamp |-> 5, difficulty |-> 72000,
              reward |-> Atomic(1000000, 0)]])}
StepSupplyReplies == {Down, Result([total_supply |-> Atomic(1000000, 0)])}

RepliesTo(method) ==
  CASE method = "get_block_count" -> StepCountReplies
    [] method = "get_difficulty" -> StepDifficultyReplies
    [] method = "get_block" -> StepBlockReplies
    [] method = "get_supply" -> StepSupplyReplies

answered(e) == e.reply.kind # "pending"
failed(reply) == unusable(rpcCall(reply))
blockCalls(log) == SelectSeq(log, LAMBDA e : e.method = "get_block")
by(log, name) == SelectSeq(log, LAMBDA e : e.by = name)
repliesOf(log) == [j \in 1..Len(log) |-> log[j].reply]

Goes(issue) == [issue |-> issue, done |-> FALSE]
Returns == [issue |-> <<>>, done |-> TRUE]

\* line 216: getLastBlockInfo asks for the block before the height it got
lastBlockRequest(countReply) ==
  Rpc("getLastBlockInfo", "get_block", <<getBlockHeight(countReply).val - 1>>)

\* a Promise.all that settles with the first of the four
allSettled_first(log) ==
  \/ answered(by(log, "getBlockHeight")[1])
  \/ answered(by(log, "getDifficulty")[1])
  \/ answered(by(log, "getTotalSupply")[1])
  \/ Len(by(log, "getLastBlockInfo")) = 2
        /\ answered(by(log, "getLastBlockInfo")[2])

\* lines 249-254: Promise.all of the four accessors, none of which rejects
allSettled(log) ==
  /\ answered(by(log, "getBlockHeight")[1])
  /\ answered(by(log, "getDifficulty")[1])
  /\ answered(by(log, "getTotalSupply")[1])
  /\ Len(by(log, "getLastBlockInfo")) = 2
  /\ answered(by(log, "getLastBlockInfo")[2])

\* lines 249-256: getStats once request j is answered
getStatsContinues(log, j) ==
  IF log[j].by = "getNetworkHashrate" THEN Returns
  ELSE IF log[j].by = "getLastBlockInfo" /\ log[j].method = "get_block_count"
    THEN Goes(<<lastBlockRequest(log[j].reply)>>)
  ELSE IF allSettled(log) /\ by(log, "getNetworkHashrate") = <<>>
    THEN Goes(<<Rpc("getNetworkHashrate", "get_difficulty", <<>>)>>)
  ELSE Goes(<<>>)

\* lines 96-135: calculateNetworkHashrate(blockCount) once request j is
\* answered: the next get_block of the loop, the get_difficulty of the catch
\* block, or the return
walkContinues(blockCount, log, j) ==
  LET currentHeight == getBlockHeight(log[1].reply).val
      i == Len(blockCalls(log))
      height == currentHeight - i - 1
      fallback == Goes(<<Rpc("calculateNetworkHashrate", "get_difficulty",
                             <<>>)>>)
  IN
  IF log[j].method = "get_difficulty" THEN Returns
  ELSE IF log[j].method = "get_block" /\ failed(log[j].reply) THEN fallback
  ELSE IF ~walkEnds(i, blockCount, height)
    THEN Goes(<<Rpc("calculateNetworkHashrate", "get_block", <<height>>)>>)
  ELSE IF notEnoughBlocks(blockCalls(log)) THEN fallback
  ELSE Returns

\* lines 213-229: getLastBlockInfo once request j is answered
lastBlockContinues(log, j) ==
  IF log[j].method = "get_block_count"
    THEN Goes(<<lastBlockRequest(log[j].reply)>>)
    ELSE Returns

continues(op, args, log, j) ==
  CASE op = "getStats" -> getStatsContinues(log, j)
    [] op = "calculateNetworkHashrate" -> walkContinues(args[1], log, j)
    [] op = "getLastBlockInfo" -> lastBlockContinues(log, j)

\* what the operation returns, from the replies its requests got
resultOf(op, args, log, t) ==
  CASE op = "getStats" ->
         monerodGetStats(<<by(log, "getBlockHeight")[1].reply,
                           by(log, "getDifficulty")[1].reply,
                           by(log, "getLastBlockInfo")[1].reply,
                           by(log, "getLastBlockInfo")[2].reply,
                           by(log, "getTotalSupply")[1].reply,
                           by(log, "getNetworkHashrate")[1].reply>>, t)
    [] op = "calculateNetworkHashrate" ->
         calculateNetworkHashrate(args[1], log[1].reply,
                                  repliesOf(blockCalls(log)),
                                  log[Len(log)].reply)
    [] op = "getLastBlockInfo" ->
         getLastBlockInfo(log[1].reply, log[2].reply, t)

\* an operation is entered and runs up to its first await
Enters(op, args, issue) ==
  /\ daemon.pc # "running"
  /\ daemon' = [op |-> op, args |-> args, pc |-> "running", log |-> issue,
                result |-> Ret(0)]
  /\ UNCHANGED <<clock, cache, calls, all, event, probe>>

\* lines 249-254: the four accessors are called one after the other, each
\* running up to the await of its rpcCall
EnterGetStats ==
  Enters("getStats", <<>>,
         <<Rpc("getBlockHeight", "get_block_count", <<>>),
           Rpc("getDifficulty", "get_difficulty", <<>>),
           Rpc("getLastBlockInfo", "get_block_count", <<>>),
           Rpc("getTotalSupply", "get_supply", <<>>)>>)

\* line 97
EnterCalculateNetworkHashrate ==
  \E blockCount \in 0..MaxBlocks :
    Enters("calculateNetworkHashrate", <<blockCount>>,
           <<Rpc("calculateNetworkHashrate", "get_block_count", <<>>)>>)

\* line 215
EnterGetLastBlockInfo ==
  Enters("getLastBlockInfo", <<>>,
         <<Rpc("getLastBlockInfo", "get_block_count", <<>>)>>)

\* request j of the log is answered with reply, and the code awaiting it runs
\* up to its next await or its return
RpcAnswered(j, reply) ==
  LET log == [daemon.log EXCEPT ![j].reply = reply]
      next == continues(daemon.op, daemon.args, log, j)
  IN
  /\ daemon.pc = "running"
  /\ ~answered(daemon.log[j])
  /\ reply \in RepliesTo(daemon.log[j].method)
  /\ daemon' = [daemon EXCEPT
                  !.log = log \o next.issue,
                  !.pc = IF next.done THEN "done" ELSE "running",
                  !.result = IF next.done
                               THEN resultOf(daemon.op, daemon.args, log, clock)
                               ELSE @]
  /\ UNCHANGED <<clock, cache, calls, all, event, probe>>

NextDaemon ==
  \/ EnterGetStats
  \/ EnterCalculateNetworkHashrate
  \/ EnterGetLastBlockInfo
  \/ \E j \in 1..Len(daemon.log) :
       \E reply \in StepCountReplies \cup StepDifficultyReplies
                       \cup StepBlockReplies \cup StepSupplyReplies :
         RpcAnswered(j, reply)

SpecDaemon == Init /\ [][NextDaemon]_vars

(***************************************************************************)
(* The StatsService wired to its two clients, as the constructor does      *)
(* (lines 547-559): fetchFn is MonerodClient.getStats for key "monerod"    *)
(* and P2PoolClient.getStats for key "p2pool".                             *)
(***************************************************************************)
\* how a promise of a client settles
settles(r) == IF r.threw THEN Rejected(r.error) ELSE Resolved(r.val)

\* the upstream situations a fetch may meet: all calls answered, the
\* upstream unreachable, one call failing
MonerodScenarios ==
  LET ok == <<Result([count |-> 100]), Result([difficulty |-> 1200000]),
              Result([count |-> 100]),
              Result([block_header |->
                        [height |-> 99, timestamp |-> 20,
                         difficulty |-> 1200000, reward |-> Atomic(600000, 0)]]),
              Result([total_supply |-> Atomic(18000000, 500000)]),
              Result([difficulty |-> 1200000])>>
  IN {ok, [i \in 1..6 |-> Down], [ok EXCEPT ![5] = ErrorReply]}

P2PoolScenarios ==
  LET ok == <<Body(CHOOSE b \in StatsBodies : "uptime" \in DOMAIN b.f),
              Body(CHOOSE b \in MinersBodies : "workers" \in DOMAIN b.f),
              Body(CHOOSE b \in NetworkBodies : "network_hashrate" \in DOMAIN b.f)>>
  IN {ok, [i \in 1..3 |-> Down], [ok EXCEPT ![2] = Down]}

\* line 593: the awaited this.monerodClient.getStats() settles
MonerodFetched(s, replies) ==
  /\ calls[s].key = "monerod"
  /\ Complete(s, replies, settles(monerodGetStats(replies, clock)))

\* line 600: the awaited this.p2poolClient.getStats() settles
P2PoolFetched(s, replies) ==
  /\ calls[s].key = "p2pool"
  /\ Complete(s, replies, settles(p2poolGetStats(replies, clock)))

Next ==
  \/ Tick
  \/ \E key \in Keys : GetStats(1, key)
  \/ \E replies \in MonerodScenarios : MonerodFetched(1, replies)
  \/ \E replies \in P2PoolScenarios : P2PoolFetched(1, replies)
  \/ clearCache
  \/ GetCacheStatus
  \/ GetSystemStats

Spec == Init /\ [][Next]_vars

(***************************************************************************)
(* Properties of the cache primitive.                                      *)
(***************************************************************************)
\* the step just taken settled an invocation of getCachedData
Settled == event.ev \in {"fresh", "stale", "throw"}

\* C1: stale fallback.  When an invocation that found an entry for its key
\* at its start sees its fetchFn reject, it returns exactly the data of that
\* entry and propagates no error.
C1_StaleFallback ==
  (Settled /\ event.outcome.kind = "fail" /\ event.cached.has)
    => /\ event.result.kind = "value"
       /\ event.result.val = event.cached.data

\* an expired entry was served after a failed refresh
C1_Witness ==
  /\ event.ev = "stale"
  /\ event.outcome.kind = "fail"
  /\ event.cached.has
  /\ event.now - event.cached.timestamp >= cacheTimeout

\* C2: cold failure.  When an invocation that found no entry for its key sees
\* its fetchFn reject, it propagates that same error, and the step writes
\* nothing: a key without an entry is still without one afterwards.
C2_ColdFailure ==
  [][(event'.ev \in {"fresh", "stale", "throw"}
        /\ event'.outcome.kind = "fail" /\ ~event'.cached.has)
       => /\ event'.result.kind = "error"
          /\ event'.result.err = event'.outcome.err
          /\ cache' = cache
          /\ (event'.key \notin DOMAIN cache => event'.key \notin DOMAIN cache')]_vars

\* a failure was propagated and the key has no entry
C2_Witness ==
  /\ event.ev = "throw"
  /\ event.result.kind = "error"
  /\ event.key \notin DOMAIN cache

\* C3: cache round trip.  A request is served from the cache without calling
\* fetchFn exactly when an entry exists whose writer started less than
\* 30,000 ms before it; any other request calls fetchFn, and a successful
\* fetch stamps the entry with the instant its own request started.
C3_CacheRoundTrip ==
  /\ event.ev \in {"hit", "fetch"}
       => (event.ev = "hit"
             <=> (event.cached.has
                    /\ event.now - event.cached.timestamp < cacheTimeout))
  /\ event.ev = "hit" => event.result = Value(event.cached.data)
  /\ event.ev = "fresh"
       => /\ event.key \in DOMAIN cache
          /\ cache[event.key] = [data |-> event.outcome.val,
                                 timestamp |-> event.now]

\* a second request, made later but within the TTL, was served from the cache
C3_Witness ==
  /\ event.ev = "hit"
  /\ event.now > event.cached.timestamp
  /\ event.now - event.cached.timestamp < cacheTimeout

\* a request made once the TTL had run out called fetchFn again
C3_WitnessExpired ==
  /\ event.ev = "fetch"
  /\ event.cached.has
  /\ event.now - event.cached.timestamp >= cacheTimeout

\* C4: under any interleaving, a fetch failure propagates only if no entry
\* exists for the key at the moment the failure is handled; whenever an entry
\* exists at that moment a cached value is returned.
C4_FailureOnlyWithoutEntry ==
  (Settled /\ event.outcome.kind = "fail")
    => /\ event.result.kind = "error" => event.key \notin DOMAIN cache
       /\ event.key \in DOMAIN cache => event.result.kind = "value"

(***************************************************************************)
(* Properties of getAllStats.                                              *)
(***************************************************************************)
\* C6: getAllStats rejects exactly when one of its two fetches fails for a
\* key that had no entry when the invocation read the cache; otherwise it
\* resolves, once both invocations have settled, with a composite whose
\* monerod and p2pool parts are the values getCachedData returned.
C6_AllStats ==
  LET a == event.all IN
  /\ a.kind = "rejected"
       => /\ event.outcome.kind = "fail"
          /\ ~event.cached.has
          /\ a.src[event.key].failed
          /\ ~a.src[event.key].cachedHas
          /\ a.err = event.outcome.err
  /\ (event.owner = "all" /\ event.outcome.kind = "fail" /\ ~event.cached.has)
       => a.kind = "rejected"
  /\ a.kind = "resolved"
       => /\ \A k \in Keys : a.got[k].kind = "value"
          /\ \A k \in Keys : ~(a.src[k].failed /\ ~a.src[k].cachedHas)
          /\ a.val.monerod = a.got["monerod"].val
          /\ a.val.p2pool = a.got["p2pool"].val
  /\ all.pc = "waiting"
       => /\ \E k \in Keys : calls[AllSlot(k)].pc = "fetching"
          /\ \A k \in Keys : all.got[k].kind # "error"
          /\ \A k \in Keys :
               all.got[k].kind = "none" <=> calls[AllSlot(k)].pc = "fetching"

\* getAllStats rejected because a fetch failed with nothing cached
C6_Witness ==
  /\ event.all.kind = "rejected"
  /\ event.owner = "all"
  /\ event.ev = "throw"

(***************************************************************************)
(* Properties of the service wired to its clients (Spec).                  *)
(***************************************************************************)
\* the upstream failed every request of the fetch just completed
AllDown == event.upstream # <<>> /\ \A i \in DOMAIN event.upstream : event.upstream[i] = Down

\* C5: whenever getMonerodStats or getP2PoolStats completes a fetch that was
\* started with an expired entry for its key and during which the upstream
\* failed every request, the call returns the data of that entry and the
\* entry is still the one it was.
C5_StaleThroughService ==
  (Settled /\ event.cached.has /\ ~isFresh(event.cached, event.now) /\ AllDown)
    => /\ event.result = Value(event.cached.data)
       /\ cacheGet(cache, event.key) = event.cached

(***************************************************************************)
(* Properties of the two clients (SpecClients).                            *)
(***************************************************************************)
\* C7: whenever one of the six RPCs of a daemon getStats fails, the snapshot
\* returned is the documented default, with no field taken from a call that
\* succeeded.
C7_NoPartialPopulation ==
  (probe.op = "monerod.getStats" /\ \E i \in 1..6 : probe.replies[i] \in Failures)
    => probe.result = Ret(defaultMonerodStats(probe.at))

hashrateFields == {"pool_hashrate", "network_hashrate", "live_hashrate"}

\* the body of a reply gives its hashrates as numbers, where it gives them
wellFormed(reply) ==
  reply.kind = "body" =>
    \A f \in hashrateFields : get(reply.body, f).t \in {"number", "undefined"}

C8_WitnessPool ==
  /\ probe.op = "p2pool.getStats"
  /\ ~wellFormed(probe.replies[1])
  /\ probe.result.val.status = "inactive"

\* C9: in every snapshot the daemon getStats returns, status is 'connected'
\* if blockHeight > 0 and 'disconnected' otherwise, circulatingSupply equals
\* totalSupply, and averageBlockTime is 120.
C9_DaemonStatus ==
  probe.op = "monerod.getStats" =>
    LET stats == probe.result.val IN
    /\ ~probe.result.threw
    /\ stats.status = "connected" <=> stats.blockHeight > 0
    /\ stats.status = "disconnected" <=> ~(stats.blockHeight > 0)
    /\ stats.circulatingSupply = stats.totalSupply
    /\ stats.averageBlockTime = 120

\* a connected snapshot at height 100 and a disconnected one at height 0
\* whose other calls were answered
C9_Witness ==
  /\ probe.op = "monerod.getStats"
  /\ probe.result.val.status = "connected"
  /\ probe.result.val.blockHeight = 100
  /\ probe.result.val.totalSupply = "18.000000500000"

C9_WitnessZero ==
  /\ probe.op = "monerod.getStats"
  /\ probe.replies[1] = Result([count |-> 0])
  /\ probe.replies[5] \notin Failures
  /\ probe.result.val.status = "disconnected"

PoolStatsFields ==
  {"status", "poolHashrate", "networkHashrate", "liveHashrate", "miners",
   "workers", "shares", "lastShareTime", "uptime", "poolFee", "minPayout",
   "totalPaid", "averageEffort", "currentEffort"}

\* the pool getStats resolved with a snapshot that has every field
Complete14 ==
  ~probe.result.threw /\ DOMAIN probe.result.val = PoolStatsFields

walkAnswered ==
  \A i \in DOMAIN probe.replies[2] : probe.replies[2][i].kind = "result"

\* C11: calculateNetworkHashrate throws nothing; its method is
\* 'weighted_average' exactly when the loop could ask for at least 2 blocks
\* and every get_block call was answered, and 'difficulty_fallback' in every
\* other case, in which hashrateNumber is getDifficulty() / 120 and hashrate
\* is that number formatted.
C11_HashrateFallback ==
  probe.op = "calculateNetworkHashrate" =>
    LET r == probe.result.val
        blocks == available(probe.args[1], probe.replies[1])
        difficulty == getDifficulty(probe.replies[3]).val
    IN
    /\ ~probe.result.threw
    /\ r.method \in {"weighted_average", "difficulty_fallback"}
    /\ r.method = "weighted_average" <=> (blocks >= 2 /\ walkAnswered)
    /\ r.method = "difficulty_fallback" =>
         /\ r.hashrateNumber.n * 120 = difficulty * r.hashrateNumber.d
         /\ r.hashrate = formatHashrate(difficulty, 120)

\* a walk of three blocks whose second get_block failed: the fallback with
\* 1,200,000 / 120 = 10,000 H/s
C11_Witness ==
  /\ probe.op = "calculateNetworkHashrate"
  /\ probe.args = <<3>>
  /\ probe.replies[1] = Result([count |-> 100])
  /\ probe.replies[2][1].kind = "result"
  /\ probe.replies[2][2] = Down
  /\ probe.replies[3] = Result([difficulty |-> 1200000])
  /\ probe.result.val.method = "difficulty_fallback"
  /\ probe.result.val.hashrateNumber = [n |-> 10000, d |-> 1]
  /\ probe.result.val.hashrate = "10.00 KH/s"

\* a chain of one block: too few blocks without any failed call
C11_WitnessShort ==
  /\ probe.op = "calculateNetworkHashrate"
  /\ probe.args = <<3>>
  /\ probe.replies[1] = Result([count |-> 1])
  /\ walkAnswered
  /\ probe.result.val.method = "difficulty_fallback"

\* two blocks 15 s apart: the weighted estimate 1,200,000 / 15
C11_WitnessWeighted ==
  /\ probe.op = "calculateNetworkHashrate"
  /\ probe.result.val.method = "weighted_average"
  /\ probe.result.val.hashrateNumber = [n |-> 80000, d |-> 1]
  /\ probe.result.val.hashrate = "80.00 KH/s"

(***************************************************************************)
(* Further properties of the cache primitive (SpecCache).                  *)
(***************************************************************************)
\* the invocations of getCachedData for key that wait for their fetchFn
InFlight(cs, key) ==
  Cardinality({c \in Calls : cs[c].pc = "fetching" /\ cs[c].key = key})

\* C12: a request for a key that has no fresh entry invokes fetchFn for
\* itself, however many fetches for that key are already in flight: each such
\* request adds one fetch, so N requests started before any fetch completes
\* make N invocations of fetchFn.
C12_NoDeduplication ==
  [][\A key \in Keys :
       (event'.ev \in {"hit", "fetch"} /\ event'.key = key
          /\ ~isFresh(cacheGet(cache, key), clock))
         => /\ event'.ev = "fetch"
            /\ InFlight(calls', key) = InFlight(calls, key) + 1]_vars

\* every request slot waits for its own fetch of 'monerod', all started on
\* an empty cache and none completed
C12_Witness ==
  /\ InFlight(calls, "monerod") = MaxCalls
  /\ MaxCalls >= 2
  /\ \A c \in Calls : ~calls[c].cached.has
  /\ "monerod" \notin DOMAIN cache
  /\ event.ev = "fetch"

(***************************************************************************)
(* Further properties of the service over arbitrary clients (SpecAll).     *)
(***************************************************************************)
\* C13: a step that returns a cached value (a hit, or the stale value after
\* a failed refresh) or propagates a failure leaves the whole cache map as it
\* was; apart from clearCache, the entry of a key changes only in a step that
\* completes a successful fetch for that key, which sets it to the fetched
\* data stamped with the start instant of that request, and leaves the entry
\* of the other key alone.
C13_EntryLifecycle ==
  [][/\ event'.ev \in {"hit", "stale", "throw", "fetch", "all"} => cache' = cache
     /\ \A key \in Keys :
          cacheGet(cache', key) # cacheGet(cache, key) =>
            \/ event'.ev = "clear"
            \/ /\ event'.ev = "fresh"
               /\ event'.key = key
               /\ cache'[key] = [data |-> event'.outcome.val,
                                 timestamp |-> event'.now]]_vars

\* a failed refresh has returned the stale value and the expired entry is
\* still in the map, next to an entry of the other key
C13_Witness ==
  /\ event.ev = "stale"
  /\ cacheGet(cache, event.key) = event.cached
  /\ clock - event.cached.timestamp >= cacheTimeout
  /\ DOMAIN cache = Keys

\* a successful fetch has overwritten an entry while the other key keeps an
\* entry with an older timestamp
C13_WitnessOverwrite ==
  /\ event.ev = "fresh"
  /\ event.cached.has
  /\ DOMAIN cache = Keys
  /\ \E k \in Keys \ {event.key} : cache[k].timestamp < cache[event.key].timestamp

\* C14: clearCache leaves the map empty whatever it held, a getCacheStatus
\* call that follows it returns no entries, and a key leaves the map in no
\* step other than clearCache.
C14_ClearCache ==
  [][/\ event'.ev = "clear" =>
          cache' = EmptyMap /\ getCacheStatus(cache', clock') = EmptyMap
     /\ (event.ev = "clear" /\ event'.ev = "status") => event'.status = EmptyMap
     /\ \A key \in Keys :
          (key \in DOMAIN cache /\ key \notin DOMAIN cache') => event'.ev = "clear"
    ]_vars

\* the map has just been cleared while a refresh that had read an entry of
\* it is still in flight
C14_Witness ==
  /\ event.ev = "clear"
  /\ cache = EmptyMap
  /\ \E s \in Slots : calls[s].pc = "fetching" /\ calls[s].cached.has

\* C15: in every status getCacheStatus returns, an entry is reported valid
\* exactly when its age is not greater than 30,000 ms, so an entry aged
\* exactly 30,000 ms is reported valid.
C15_ValidUpToTimeout ==
  event.ev = "status" =>
    \A key \in DOMAIN event.status :
      LET age == event.now - cache[key].timestamp IN
      event.status[key].valid <=> ~(age > 30000)

\* C16: the age getCacheStatus reports for a key is the time elapsed since
\* the entry of that key was last written: at the instant a successful fetch
\* has written the entry, a status call reports age 0 for it.
C16_AgeSinceWrite ==
  event.ev = "fresh" => getCacheStatus(cache, clock)[event.key].age = 0

(***************************************************************************)
(* Further properties of the clients (SpecClients).                        *)
(***************************************************************************)
\* C17: testConnections throws nothing whatever the two upstreams do; its
\* p2pool flag is true exactly when GET /stats succeeded, whichever reply the
\* daemon gave, and its monerod flag is the same whichever reply the pool
\* gave.
C17_TestConnections ==
  probe.op = "testConnections" =>
    LET countReply == probe.replies[1]
        statsReply == probe.replies[2]
        flags == probe.result.val
    IN
    /\ ~probe.result.threw
    /\ flags.p2pool <=> statsReply.kind = "body"
    /\ \A other \in CountReplies :
         testConnections(other, statsReply).val.p2pool = flags.p2pool
    /\ \A other \in StatsReplies :
         testConnections(countReply, other).val.monerod = flags.monerod

\* the pool is unreachable while the daemon answers
C17_Witness ==
  /\ probe.op = "testConnections"
  /\ probe.replies[1] = Result([count |-> 100])
  /\ probe.replies[2] = Down
  /\ probe.result = Ret([monerod |-> TRUE, p2pool |-> FALSE])

\* the daemon is unreachable while the pool answers
C17_WitnessDaemonDown ==
  /\ probe.op = "testConnections"
  /\ probe.replies[1] = Down
  /\ probe.replies[2].kind = "body"
  /\ ~probe.result.threw
  /\ probe.result.val.p2pool

\* C18: the daemon client's testConnection returns true whatever the daemon
\* does with get_block_count: a transport failure, an error envelope, an
\* envelope without result, or a count.
C18_AlwaysConnected ==
  probe.op = "monerod.testConnection" => probe.result = Ret(TRUE)

\* the daemon is unreachable and testConnection has returned true
C18_Witness ==
  /\ probe.op = "monerod.testConnection"
  /\ probe.replies[1] = Down
  /\ probe.result.val = TRUE

\* the daemon answers with an error envelope and testConnection has returned
\* true
C18_WitnessError ==
  /\ probe.op = "monerod.testConnection"
  /\ probe.replies[1] = ErrorReply
  /\ probe.result.val = TRUE

\* C19: the keys of the cache map are always among 'monerod' and 'p2pool';
\* a getSystemStats call leaves the cache map as it was and returns stats
\* taken at the instant of the call; and the system part of every composite
\* getAllStats resolves with is taken at the instant it resolves, also when
\* both other parts come from the cache.
C19_SystemNeverCached ==
  /\ [](DOMAIN cache \subseteq {"monerod", "p2pool"})
  /\ [][/\ event'.ev = "system" =>
             cache' = cache /\ event'.result.val.timestamp = clock'
        /\ event'.all.kind = "resolved" =>
             event'.all.val.system.timestamp = clock']_vars

\* getAllStats has resolved at once from two cached entries that are older
\* than the system stats it carries
C19_Witness ==
  /\ event.ev = "all"
  /\ event.all.kind = "resolved"
  /\ DOMAIN cache = Keys
  /\ \A k \in Keys : cache[k].timestamp < event.all.val.system.timestamp

\* the number of times m can be divided by 1000 before it is below 1000
magnitude(m) == IF m < 1000 THEN 0 ELSE IF m < 1000000 THEN 1 ELSE 2

\* the smallest k in 0..4 with m * 1000^e / 1000^k < 1000, or 4 if none
expectedDivisions(rate) ==
  IF rate.m = 0 THEN 0
  ELSE IF magnitude(rate.m) + rate.e < 4 THEN magnitude(rate.m) + rate.e ELSE 4

\* 1000^j
RECURSIVE pow1000(_)
pow1000(j) == IF j = 0 THEN 1 ELSE 1000 * pow1000(j - 1)

\* C20: for every rate r = m * 1000^e the formatter divides by 1000 exactly k
\* times, k being the smallest index in 0..4 with r / 1000^k < 1000, or 4 if
\* there is none, and labels the result with the k-th of H/s, KH/s, MH/s,
\* GH/s, TH/s; format(0) is '0.00 H/s', format(1500) is '1.50 KH/s',
\* format(10^12) is '1.00 TH/s', format(2.5 * 10^12) is '2.50 TH/s'; the
\* daemon client's and the pool client's formatter give the same text; and
\* for rates within the checker's integers both agree with formatHashrate.
C20_FormatHashrate ==
  probe.op = "formatHashrate" =>
    LET rate == probe.args[1]
        k == expectedDivisions(rate)
        out == probe.result.val.monerod
        left == rate.e - k
    IN
    /\ ~probe.result.threw
    /\ out.divisions = k
    /\ out.scaled.m = rate.m
    /\ rate.m > 0 =>
         IF left >= 0 THEN out.scaled.e = left /\ out.scaled.d = 1
                      ELSE out.scaled.e = 0 /\ out.scaled.d = pow1000(-left)
    /\ \E unit \in {"H/s", "KH/s", "MH/s", "GH/s", "TH/s"} :
         /\ unit = <<"H/s", "KH/s", "MH/s", "GH/s", "TH/s">>[k + 1]
         /\ \E number \in {toFixedRate([d |-> out.scaled.d, m |-> rate.m,
                                        e |-> out.scaled.e])} :
              out.text = number \o " " \o unit
    /\ rate = Rate(0, 0) => out.text = "0.00 H/s"
    /\ rate = Rate(1500, 0) => out.text = "1.50 KH/s"
    /\ rate = Rate(1, 4) => out.text = "1.00 TH/s"
    /\ rate = Rate(2500, 3) => out.text = "2.50 TH/s"
    /\ probe.result.val.p2pool.text = out.text
    /\ rate.e = 0 => formatHashrate(rate.m, 1) = out.text

\* 2,500,000,000,000 H/s has been formatted as '2.50 TH/s' by both copies
C20_Witness ==
  /\ probe.op = "formatHashrate"
  /\ probe.args[1] = Rate(2500, 3)
  /\ probe.result.val.monerod.text = "2.50 TH/s"
  /\ probe.result.val.p2pool.text = "2.50 TH/s"

\* a rate beyond the last unit: 10^18 H/s stays in TH/s
C20_WitnessBeyond ==
  /\ probe.op = "formatHashrate"
  /\ probe.args[1] = Rate(1000, 5)
  /\ probe.result.val.monerod.divisions = 4
  /\ probe.result.val.monerod.text = "1000000.00 TH/s"

\* the smaller of two numbers
min(a, b) == IF a < b THEN a ELSE b

\* C21: the block walk of calculateNetworkHashrate(blockCount) with current
\* height h has at most one request under way at any time, asks get_block
\* for the heights h-1, h-2, ... in this order, at most min(blockCount, h)
\* times, never for a height below zero, and every get_block but the last
\* one issued has been answered successfully (so the next is issued only
\* after the previous one completed, and none after the first failure).
C21_BlockWalk ==
  daemon.op = "calculateNetworkHashrate" =>
    LET blockCount == daemon.args[1]
        asked == blockCalls(daemon.log)
    IN
    /\ Cardinality({j \in 1..Len(daemon.log) : ~answered(daemon.log[j])}) <= 1
    /\ ~answered(daemon.log[1]) => asked = <<>>
    /\ answered(daemon.log[1]) =>
         LET h == getBlockHeight(daemon.log[1].reply).val IN
         /\ Len(asked) <= min(blockCount, h)
         /\ \A k \in 1..Len(asked) :
              /\ asked[k].params = <<h - k>>
              /\ asked[k].params[1] >= 0
              /\ k < Len(asked) =>
                   answered(asked[k]) /\ ~failed(asked[k].reply)
              /\ k > 1 => asked[k].params[1] < asked[k - 1].params[1]

\* a walk of up to three blocks from height 100 that asked for 99, then for
\* 98, and ended there because the second request failed
C21_Witness ==
  /\ daemon.op = "calculateNetworkHashrate"
  /\ daemon.args = <<3>>
  /\ daemon.pc = "done"
  /\ Len(blockCalls(daemon.log)) = 2
  /\ blockCalls(daemon.log)[1].params = <<99>>
  /\ blockCalls(daemon.log)[2].params = <<98>>
  /\ failed(blockCalls(daemon.log)[2].reply)
  /\ daemon.result.val.method = "difficulty_fallback"

\* a walk of up to three blocks from height 2 that ended at height 0
C21_WitnessBottom ==
  /\ daemon.op = "calculateNetworkHashrate"
  /\ daemon.args = <<3>>
  /\ daemon.pc = "done"
  /\ Len(blockCalls(daemon.log)) = 2
  /\ blockCalls(daemon.log)[2].params = <<0>>
  /\ daemon.result.val.method = "weighted_average"

\* C22: getStats of the daemon client starts with its four fetches issued
\* together (block height, difficulty, last-block info, total supply: all
\* four requests are under way before any is answered), and the
\* get_difficulty of getNetworkHashrate is in the log only when the
\* get_block_count of getBlockHeight, the get_difficulty of getDifficulty,
\* the get_supply and both requests of getLastBlockInfo have been answered.
C22_HashrateAfterTheFour ==
  daemon.op = "getStats" =>
    /\ Len(daemon.log) >= 4
    /\ [j \in 1..4 |-> <<daemon.log[j].by, daemon.log[j].method>>] =
         << <<"getBlockHeight", "get_block_count">>,
            <<"getDifficulty", "get_difficulty">>,
            <<"getLastBlockInfo", "get_block_count">>,
            <<"getTotalSupply", "get_supply">> >>
    /\ Len(by(daemon.log, "getNetworkHashrate")) <= 1
    /\ \A j \in 1..Len(daemon.log) :
         daemon.log[j].by = "getNetworkHashrate" =>
           /\ daemon.log[j].method = "get_difficulty"
           /\ j = 6
           /\ \A k \in 1..5 : answered(daemon.log[k])
           /\ daemon.log[5].by = "getLastBlockInfo"
           /\ daemon.log[5].method = "get_block"

\* the get_difficulty of getNetworkHashrate is under way, after the five
\* requests of the four fetches
C22_Witness ==
  /\ daemon.op = "getStats"
  /\ daemon.pc = "running"
  /\ Len(daemon.log) = 6
  /\ daemon.log[6].by = "getNetworkHashrate"
  /\ ~answered(daemon.log[6])

\* the four have no order among them: the total supply, started last, is
\* answered while the block height, started first, is still awaited
C22_WitnessLastFirst ==
  /\ daemon.op = "getStats"
  /\ answered(by(daemon.log, "getTotalSupply")[1])
  /\ ~answered(by(daemon.log, "getBlockHeight")[1])
  /\ ~answered(by(daemon.log, "getDifficulty")[1])

\* the block height is answered while the other three are still awaited
C22_WitnessFirstFirst ==
  /\ daemon.op = "getStats"
  /\ answered(by(daemon.log, "getBlockHeight")[1])
  /\ ~answered(by(daemon.log, "getTotalSupply")[1])
  /\ ~answered(by(daemon.log, "getDifficulty")[1])
  /\ Len(by(daemon.log, "getLastBlockInfo")) = 1

\* C23: for replies whose hashrates are numbers, miners of the PoolStats is
\* the length of the miner list when GET /miners returned a miner list (an
\* empty list giving 0), otherwise the miners value of the GET /stats
\* response when there is one, otherwise 0.
C23_MinersFallbackChain ==
  (probe.op = "p2pool.getStats" /\ \A i \in 1..3 : wellFormed(probe.replies[i])) =>
    LET minerStats == endpoints(probe.replies).minerStats
        poolStats == endpoints(probe.replies).poolStats
        list == get(minerStats, "miners")
        miners == probe.result.val.miners
    IN
    IF list.t = "array" THEN miners = Num(Len(list.items))
    ELSE IF get(poolStats, "miners").t = "number"
      THEN miners = get(poolStats, "miners")
      ELSE miners = Num(0)

\* the positive last_share_time values of the miner entries GET /miners gave
reportedShares(minerReply) ==
  LET list == IF minerReply.kind = "body" THEN get(minerReply.body, "miners")
                                          ELSE Undefined
      entries == IF list.t = "array" THEN list.items ELSE <<>>
      reporting == {k \in 1..Len(entries) :
                      /\ get(entries[k], "last_share_time").t = "number"
                      /\ get(entries[k], "last_share_time").n > 0}
  IN
  {get(entries[k], "last_share_time").n : k \in reporting}

\* the largest number of a non-empty set
latest(shares) == CHOOSE x \in shares : \A y \in shares : y <= x

\* C24 as stated: lastShareTime is the latest last_share_time of the miner
\* entries, in milliseconds, whenever a miner reports a positive one, and the
\* current time otherwise.
C24_AsStated ==
  probe.op = "p2pool.getStats" =>
    LET shares == reportedShares(probe.replies[2]) IN
    IF shares # {}
      THEN probe.result.val.lastShareTime = toISOString(latest(shares) * 1000)
      ELSE probe.result.val.lastShareTime = toISOString(probe.at)

\* C24: lastShareTime is the latest last_share_time of the miner entries, in
\* milliseconds, whenever a miner reports a positive one and the hashrates of
\* the replies are numbers; it is the current time when no miner reports a
\* share (no list, an empty list, GET /miners failed) and when a hashrate
\* that is not a number makes the merge throw.
C24_LastShareTime ==
  probe.op = "p2pool.getStats" =>
    LET shares == reportedShares(probe.replies[2])
        merged == \A i \in 1..3 : wellFormed(probe.replies[i])
    IN
    /\ (merged /\ shares # {}) =>
         probe.result.val.lastShareTime = toISOString(latest(shares) * 1000)
    /\ (~merged \/ shares = {}) =>
         probe.result.val.lastShareTime = toISOString(probe.at)

\* three miner entries reporting 10, 20 and nothing: the share time is 20 s
C24_Witness ==
  /\ probe.op = "p2pool.getStats"
  /\ reportedShares(probe.replies[2]) = {10, 20}
  /\ probe.at = 15000
  /\ probe.result.val.lastShareTime = toISOString(20000)

\* one miner entry whose last_share_time is 0: the current time
C24_WitnessNoShare ==
  /\ probe.op = "p2pool.getStats"
  /\ probe.replies[2].kind = "body"
  /\ lengthOf(get(probe.replies[2].body, "miners")) = Num(1)
  /\ probe.at = 15000
  /\ probe.result.val.status = "active"
  /\ probe.result.val.lastShareTime = toISOString(15000)

\* C25: the timestamp of a key's cache entry never decreases from one write
\* to the next: a step that overwrites an entry does not stamp it older than
\* the entry it overwrites.
C25_TimestampNeverDecreases ==
  [][\A key \in Keys :
       (key \in DOMAIN cache /\ key \in DOMAIN cache')
         => cache'[key].timestamp >= cache[key].timestamp]_vars

\* C26: whenever an invocation returns a cached value (on a hit, or the stale
\* value after a failed refresh), the cache holds an entry for its key at
\* that moment and the value returned is the data of that entry.
C26_ReturnsCurrentEntry ==
  event.ev \in {"hit", "stale"} =>
    /\ event.key \in DOMAIN cache
    /\ event.result.val = cache[event.key].data

\* the status says key has a valid entry
reportedValid(status, key) == key \in DOMAIN status /\ status[key].valid

\* C27: at any instant and for any key, getCacheStatus reports the key valid
\* if and only if a getCachedData call for the key started at that instant
\* returns the cached value without calling fetchFn; the status a call of
\* getCacheStatus returned and the hit or fetch of a request agree with it.
C27_FreshnessAgreement ==
  /\ \A key \in Keys :
       reportedValid(getCacheStatus(cache, clock), key) <=> hits(key, cache, clock)
  /\ event.ev = "status" =>
       \A key \in Keys : reportedValid(event.status, key) <=> hits(key, cache, clock)
  /\ event.ev = "hit" =>
       reportedValid(getCacheStatus(cache, clock), event.key)
  /\ event.ev = "fetch" =>
       ~reportedValid(getCacheStatus(cache, clock), event.key)

\* a status taken when one entry is exactly cacheTimeout old and the other
\* is younger: the first is reported invalid, the second valid
C27_Witness ==
  /\ event.ev = "status"
  /\ DOMAIN cache = Keys
  /\ \E key \in Keys :
       /\ clock - cache[key].timestamp = cacheTimeout
       /\ ~event.status[key].valid
       /\ ~hits(key, cache, clock)
  /\ \E key \in Keys : event.status[key].valid /\ hits(key, cache, clock)

\* C28: the networkHashrate of every DaemonStats returned by getStats is the
\* formatted value of its own difficulty field divided by 120.
C28_HashrateOfOwnDifficulty ==
  probe.op = "monerod.getStats" =>
    probe.result.val.networkHashrate =
      formatHashrate(probe.result.val.difficulty, 120)

\* C29: no get_block request of the daemon client carries a negative height,
\* in calculateNetworkHashrate, getLastBlockInfo or getStats, for any block
\* height reported or defaulted.
C29_NoNegativeHeight ==
  \A j \in 1..Len(daemon.log) :
    daemon.log[j].method = "get_block" => daemon.log[j].params[1] >= 0

====
